---- MODULE Spec2Model ----
(***************************************************************************)
(* MyPromise (src/promise/src/promise.ts, lines 42-315): the deferred      *)
(* value state machine, its resolution procedure, the microtask queue it   *)
(* feeds, and the combinators built on top of it.                          *)
(*                                                                         *)
(* Instances live in a heap indexed 1..Len(state); an instance is named by *)
(* its index.  Values, callbacks and jobs are records of one shape each.   *)
(***************************************************************************)
EXTENDS Integers, Sequences, FiniteSets, TLC

(***************************************************************************)
(* Bounds of the model.                                                    *)
(***************************************************************************)
\* instances in the heap (user-made and internal ones together)
MaxPromises == 7
\* public calls of the user program in one behaviour
MaxCalls == 4
\* elements of the sequence given to a combinator
MaxElems == 2
\* instances in the heap once allSettled has been called
MaxSettled == 15

(***************************************************************************)
(* Values.  t is the JavaScript shape of the value, n its identity, items  *)
(* the elements of an array.                                               *)
(***************************************************************************)
Val(t, n) == [t |-> t, n |-> n, items |-> <<>>]
Undefined == Val("undefined", 0)
\* a primitive
V(n) == Val("plain", n)
\* an error object made by the user program
E(n) == Val("error", n)
\* new TypeError("A promise cannot be resolved with itself.")
SelfResolutionError == Val("TypeError", 0)
\* a MyPromise instance
P(p) == Val("promise", p)
\* a foreign object, number k of Thenables
Th(k) == Val("thenable", k)
\* an array
Arr(s) == [t |-> "array", n |-> 0, items |-> s]
\* an index of an array that was never assigned
Hole == Val("hole", 0)

(***************************************************************************)
(* Foreign objects handed to resolve.  get: what reading the member `then` *)
(* does ("throw": the getter throws err; "value": then is not a function;  *)
(* "function": then is callable).  script: what a callable then does while *)
(* it is called: F v calls the first callback with v, R v the second, T v  *)
(* throws v.  keeps: the object keeps both callbacks and may call them     *)
(* after then has returned.                                                *)
(***************************************************************************)
Op(o, v) == [op |-> o, v |-> v]
Foreign(g, e, s, k) == [get |-> g, err |-> e, script |-> s, keeps |-> k]
Thenables ==
  << Foreign("throw", E(1), <<>>, FALSE),
     Foreign("value", Undefined, <<>>, FALSE),
     Foreign("function", Undefined, <<Op("F", V(1)), Op("R", E(1))>>, FALSE),
     Foreign("function", Undefined, <<Op("R", E(1)), Op("F", V(1))>>, FALSE),
     Foreign("function", Undefined, <<Op("T", E(2))>>, FALSE),
     Foreign("function", Undefined, <<Op("F", V(1)), Op("T", E(2))>>, FALSE),
     Foreign("function", Undefined, <<>>, TRUE),
     Foreign("function", Undefined, <<Op("F", Th(7)), Op("R", E(1))>>, TRUE),
     Foreign("function", Undefined, <<Op("F", Th(7)), Op("T", E(2))>>, TRUE) >>

\* typeof then === "function" after a read that did not throw (lines 69-77)
IsThenable(v) == v.t = "promise" \/ (v.t = "thenable" /\ Thenables[v.n].get = "function")
\* reading the member then throws (lines 70-75)
ThenReadThrows(v) == v.t = "thenable" /\ Thenables[v.n].get = "throw"

(***************************************************************************)
(* Callbacks.  k is the kind, n the instance or adoption it closes over,   *)
(* i the index a combinator's callback closes over, m the kind of the     *)
(* onfinally a finally closure wraps, v the value a user function returns  *)
(* or throws.                                                              *)
(***************************************************************************)
Fn(k, n, m, v) == [k |-> k, n |-> n, i |-> 0, m |-> m, v |-> v]
\* undefined, null, or anything with typeof # "function"
NotFn == Fn("none", 0, "", Undefined)
\* the resolve / reject closures of instance p (lines 50, 108)
ResolveFn(p) == Fn("resolve", p, "", Undefined)
RejectFn(p) == Fn("reject", p, "", Undefined)
\* the two guarded callbacks of adoption a (lines 81-90)
GuardF(a) == Fn("guardF", a, "", Undefined)
GuardR(a) == Fn("guardR", a, "", Undefined)
\* a user function that returns v / throws v, whatever its argument
Ret(v) == Fn("ret", 0, "", v)
Throw(v) == Fn("throw", 0, "", v)
\* passThroughFulfilled / passThroughRejected of finally(onfinally), where
\* onfinally is NotFn (m = "none"), Ret(v) (m = "ret") or Throw(v) (m = "throw")
FinF(onfinally) ==
  [k |-> "finF", n |-> onfinally.n, i |-> 0, m |-> onfinally.k, v |-> onfinally.v]
FinR(onfinally) ==
  [k |-> "finR", n |-> onfinally.n, i |-> 0, m |-> onfinally.k, v |-> onfinally.v]
\* the onfinally that the closure f of finally wraps
OnFin(f) == [k |-> f.m, n |-> f.n, i |-> 0, m |-> "", v |-> f.v]
IsFunction(f) == f.k # "none"

(***************************************************************************)
(* The heap.                                                               *)
(***************************************************************************)
VARIABLES
  state,      \* state[p]: "pending" | "fulfilled" | "rejected"   (line 43)
  value,      \* value[p]: the result                             (line 44)
  handlers,   \* handlers[p]: the queued handler records          (line 45)
  parent,     \* parent[p]: the instance whose then made p, or 0
  queue,      \* the microtask queue (queueMicrotask, line 172)
  called,     \* called[a]: the flag of adoption a                (line 76)
  owner,      \* owner[a]: the instance adoption a resolves
  keeps,      \* keeps[a]: the foreign object still holds a's callbacks
  schedlog,   \* history: the records given to queueMicrotask, in order
  runlog,     \* history: the records whose job has run, in order
  settled,    \* history: the instances in the order they settled
  regat,      \* history: regat[p]: the state of parent[p] when then made p
  via,        \* history: via[p]: the handler record then made with p
  comb,       \* comb[c]: the locals of the c-th combinator call
  held,       \* instances whose resolve/reject the user program holds
  pub,        \* instances the user program holds a reference to
  calls,      \* number of public calls made
  selfres,    \* history: <<p, state of p before>> of every resolve(p) on p
  last        \* history: the operation that made the last step

vars == <<state, value, handlers, parent, queue, called, owner, keeps,
          schedlog, runlog, settled, regat, via, comb, held, pub, calls, selfres, last>>

Heap == [state |-> state, value |-> value, handlers |-> handlers,
         parent |-> parent, queue |-> queue, called |-> called,
         owner |-> owner, keeps |-> keeps, schedlog |-> schedlog,
         runlog |-> runlog, settled |-> settled, regat |-> regat, via |-> via,
         comb |-> comb]

Commit(h) ==
  /\ state' = h.state
  /\ value' = h.value
  /\ handlers' = h.handlers
  /\ parent' = h.parent
  /\ queue' = h.queue
  /\ called' = h.called
  /\ owner' = h.owner
  /\ keeps' = h.keeps
  /\ schedlog' = h.schedlog
  /\ runlog' = h.runlog
  /\ settled' = h.settled
  /\ regat' = h.regat
  /\ via' = h.via
  /\ comb' = h.comb

\* a handler record (lines 24-29, 127-132); down stands for the resolve and
\* reject closures of the instance then returns
Handler(onF, onR, d) == [onF |-> onF, onR |-> onR, down |-> d]
Job(p, hd) == [src |-> p, onF |-> hd.onF, onR |-> hd.onR, down |-> hd.down]

\* the field initialisers of a new instance (lines 43-45)
Alloc(h, par) ==
  [h EXCEPT !.state = Append(@, "pending"),
            !.value = Append(@, Undefined),
            !.handlers = Append(@, <<>>),
            !.parent = Append(@, par),
            !.regat = Append(@, IF par = 0 THEN "" ELSE h.state[par]),
            !.via = Append(@, Handler(NotFn, NotFn, 0))]

RECURSIVE Resolve(_, _, _), Call(_, _, _), RunThen(_, _, _), ExecJob(_, _)

\* runHandlers that runs the bodies at once instead of queueing them
RECURSIVE RunNow(_, _, _)
RunNow(h, p, hs) ==
  IF hs = <<>> THEN h ELSE RunNow(ExecJob(h, Job(p, Head(hs))), p, Tail(hs))
RunHandlersSync(h, p) ==
  IF h.state[p] = "pending" THEN h
  ELSE RunNow([h EXCEPT !.handlers[p] = <<>>,
                        !.schedlog = @ \o [i \in 1..Len(h.handlers[p]) |-> h.handlers[p][i].down]],
              p, h.handlers[p])

\* runHandlers that leaves the drained records in the queue of the instance
RunHandlersKeep(h, p) ==
  IF h.state[p] = "pending" THEN h
  ELSE LET hs == h.handlers[p] IN
       [h EXCEPT !.queue = @ \o [i \in 1..Len(hs) |-> Job(p, hs[i])],
                 !.schedlog = @ \o [i \in 1..Len(hs) |-> hs[i].down]]

\* runHandlers on a scheduler that runs the newest microtask first
RunHandlersFront(h, p) ==
  IF h.state[p] = "pending" THEN h
  ELSE [h EXCEPT !.handlers[p] = <<>>,
                 !.queue = [i \in 1..Len(h.handlers[p]) |-> Job(p, h.handlers[p][i])] \o @,
                 !.schedlog = @ \o [i \in 1..Len(h.handlers[p]) |-> h.handlers[p][i].down]]

\* runHandlers (lines 161-200): the queue of a settled instance is swapped
\* for an empty one and one microtask is queued per record, in order
RunHandlers(h, p) ==
  IF h.state[p] = "pending" THEN h
  ELSE LET hs == h.handlers[p] IN
       [h EXCEPT !.handlers[p] = <<>>,
                 !.queue = @ \o [i \in 1..Len(hs) |-> Job(p, hs[i])],
                 !.schedlog = @ \o [i \in 1..Len(hs) |-> hs[i].down]]

\* the executor of then that leaves the record waiting, also on a settled source
RegisterNoRun(h, src, onF, onR) ==
  [h EXCEPT !.handlers[src] = Append(@, Handler(onF, onR, Len(h.state))),
            !.via[Len(h.state)] = Handler(onF, onR, Len(h.state))]

\* the executor of then (lines 127-134); the new instance is the last made
Register(h, src, onF, onR) ==
  RunHandlers([h EXCEPT !.handlers[src] = Append(@, Handler(onF, onR, Len(h.state))),
                        !.via[Len(h.state)] = Handler(onF, onR, Len(h.state))], src)

\* then (lines 122-136): the instance it returns is Len(h.state) + 1
Then(h, src, onF, onR) == Register(Alloc(h, src), src, onF, onR)

\* reject without its guard on the state
RejectAlways(h, p, r) ==
  RunHandlers([h EXCEPT !.state[p] = "rejected", !.value[p] = r,
                        !.settled = Append(@, p)], p)

\* reject that is locked out while an instance p was resolved with is pending
RejectLocked(h, p, r) ==
  IF h.state[p] # "pending" THEN h
  ELSE IF \E d \in DOMAIN h.via :
            /\ h.via[d].onF = ResolveFn(p)
            /\ h.parent[d] # 0 /\ h.state[h.parent[d]] = "pending"
       THEN h
  ELSE RunHandlers([h EXCEPT !.state[p] = "rejected", !.value[p] = r,
                             !.settled = Append(@, p)], p)

\* reject (lines 108-113)
Reject(h, p, r) ==
  IF h.state[p] # "pending" THEN h
  ELSE RunHandlers([h EXCEPT !.state[p] = "rejected", !.value[p] = r,
                             !.settled = Append(@, p)], p)

\* a fulfillment that does not store the value
FulfillNoValue(h, p, v) ==
  RunHandlers([h EXCEPT !.state[p] = "fulfilled", !.settled = Append(@, p)], p)

\* the last three statements of resolve (lines 103-105)
Fulfill(h, p, v) ==
  RunHandlers([h EXCEPT !.state[p] = "fulfilled", !.value[p] = v,
                        !.settled = Append(@, p)], p)

\* what a call returns: the heap after it, and its value (ok) or what it threw
Returned(h, v) == [h |-> h, ok |-> TRUE, v |-> v]
Thrown(h, v) == [h |-> h, ok |-> FALSE, v |-> v]

\* the body of a foreign then (the callee of then.call, line 79)
RunThen(h, a, s) ==
  IF s = <<>> THEN Returned(h, Undefined)
  ELSE IF Head(s).op = "T" THEN Thrown(h, Head(s).v)
  ELSE RunThen(Call(h, IF Head(s).op = "F" THEN GuardF(a) ELSE GuardR(a),
                    Head(s).v).h, a, Tail(s))

\* let called = false (line 76), for the adoption of v by p
Guarded(h, p, v) ==
  [h EXCEPT !.called = Append(@, FALSE),
            !.owner = Append(@, p),
            !.keeps = Append(@, Thenables[v.n].keeps)]

\* a catch that rejects without the test of the flag
AdoptCatchAlways(r, a, p) ==
  IF ~r.ok THEN Reject([r.h EXCEPT !.called[a] = TRUE], p, r.v) ELSE r.h

\* the catch around then.call (lines 92-97), r being what then.call did
AdoptCatch(r, a, p) ==
  IF ~r.ok /\ ~r.h.called[a]
  THEN Reject([r.h EXCEPT !.called[a] = TRUE], p, r.v)
  ELSE r.h

\* the adoption of a foreign thenable (lines 76-100)
Adopt(h, p, v) ==
  AdoptCatch(RunThen(Guarded(h, p, v), Len(h.called) + 1, Thenables[v.n].script),
             Len(h.called) + 1, p)

\* resolve without the test for the instance itself
ResolveNoSelfTest(h, p, v) ==
  IF h.state[p] # "pending" THEN h
  ELSE IF v.t = "promise" THEN Then(h, v.n, ResolveFn(p), RejectFn(p))
  ELSE IF ThenReadThrows(v) THEN Reject(h, p, Thenables[v.n].err)
  ELSE IF IsThenable(v) THEN Adopt(h, p, v)
  ELSE Fulfill(h, p, v)

\* resolve that takes the outcome of a settled instance at once
ResolveAdoptsNow(h, p, v) ==
  IF h.state[p] # "pending" THEN h
  ELSE IF v = P(p) THEN Reject(h, p, SelfResolutionError)
  ELSE IF v.t = "promise" /\ h.state[v.n] = "fulfilled" THEN Fulfill(h, p, h.value[v.n])
  ELSE IF v.t = "promise" /\ h.state[v.n] = "rejected" THEN Reject(h, p, h.value[v.n])
  ELSE IF v.t = "promise" THEN Then(h, v.n, ResolveFn(p), RejectFn(p))
  ELSE IF ThenReadThrows(v) THEN Reject(h, p, Thenables[v.n].err)
  ELSE IF IsThenable(v) THEN Adopt(h, p, v)
  ELSE Fulfill(h, p, v)

\* resolve without the catch around the read of then
ResolveReadUncaught(h, p, v) ==
  IF h.state[p] # "pending" THEN h
  ELSE IF v = P(p) THEN Reject(h, p, SelfResolutionError)
  ELSE IF v.t = "promise" THEN Then(h, v.n, ResolveFn(p), RejectFn(p))
  ELSE IF ThenReadThrows(v) THEN h
  ELSE IF IsThenable(v) THEN Adopt(h, p, v)
  ELSE Fulfill(h, p, v)

\* resolve (lines 50-106)
Resolve(h, p, v) ==
  IF h.state[p] # "pending" THEN h
  ELSE IF v = P(p) THEN Reject(h, p, SelfResolutionError)
  ELSE IF v.t = "promise" THEN Then(h, v.n, ResolveFn(p), RejectFn(p))
  ELSE IF ThenReadThrows(v) THEN Reject(h, p, Thenables[v.n].err)
  ELSE IF IsThenable(v) THEN Adopt(h, p, v)
  ELSE Fulfill(h, p, v)

\* the call executor(resolve, reject) (line 116) of instance p, the executor
\* running the steps of s: "resolve" v, "reject" v, "throw" v
RECURSIVE RunExecutor(_, _, _)
RunExecutor(h, p, s) ==
  IF s = <<>> THEN Returned(h, Undefined)
  ELSE IF Head(s).op = "throw" THEN Thrown(h, Head(s).v)
  ELSE IF Head(s).op = "resolve"
       THEN RunExecutor(Resolve(h, p, Head(s).v), p, Tail(s))
       ELSE RunExecutor(Reject(h, p, Head(s).v), p, Tail(s))

\* the catch around the executor (lines 117-119), r being what it did
ExecutorCatch(r, p) == IF r.ok THEN r.h ELSE Reject(r.h, p, r.v)

\* a constructor that lets the executor's throw go
ConstructNoCatch(h, s) ==
  RunExecutor(Alloc(h, 0), Len(h.state) + 1, s).h

\* new MyPromise(executor) (lines 49-120): the new instance is Len(h.state) + 1
Construct(h, s) ==
  ExecutorCatch(RunExecutor(Alloc(h, 0), Len(h.state) + 1, s), Len(h.state) + 1)

\* MyPromise.resolve (lines 205-211): the heap and the instance returned
StaticResolve(h, x) ==
  IF x.t = "promise" THEN [h |-> h, p |-> x.n]
  ELSE [h |-> Construct(h, <<Op("resolve", x)>>), p |-> Len(h.state) + 1]

\* a static reject that goes through resolve
StaticRejectResolves(h, r) ==
  IF r.t = "promise" THEN [h |-> h, p |-> r.n]
  ELSE [h |-> Construct(h, <<Op("resolve", r)>>), p |-> Len(h.state) + 1]

\* MyPromise.reject (lines 213-217)
StaticReject(h, r) ==
  [h |-> Construct(h, <<Op("reject", r)>>), p |-> Len(h.state) + 1]

\* w.then(onF, onR), w being what MyPromise.resolve returned
ThenOn(w, onF, onR) == Then(w.h, w.p, onF, onR)
\* d.then(onF, onR), d being the instance made last (a chained call)
Chain(h, onF, onR) == Then(h, Len(h.state), onF, onR)
\* return of the instance made last
ReturnNew(h) == Returned(h, P(Len(h.state)))

\* passThroughFulfilled that resolves with what onfinally returned
PassThroughResult(h, f, arg) ==
  IF f.m = "none" THEN Returned(h, arg)
  ELSE IF f.m = "throw" THEN Thrown(h, f.v)
  ELSE Returned(h, f.v)

\* MyPromise.resolve(...).then(cb) (lines 150, 154), r being what the call
\* of onfinally did: its throw leaves the closure
AfterOnFinally(r, cb) ==
  IF ~r.ok THEN r ELSE ReturnNew(ThenOn(StaticResolve(r.h, r.v), cb, NotFn))

\* a closure that returns the value without waiting for what onfinally returned
PassThroughNoWait(h, f, arg) ==
  IF f.m = "throw" THEN Thrown(h, f.v) ELSE Returned(h, arg)

\* finally's two closures (lines 148-157), onfinally being OnFin(f)
PassThroughFulfilled(h, f, arg) ==
  IF f.m = "none" THEN Returned(h, arg)
  ELSE AfterOnFinally(Call(h, OnFin(f), Undefined), Ret(arg))

PassThroughRejected(h, f, arg) ==
  AfterOnFinally(IF f.m = "none" THEN Returned(h, Undefined)
                 ELSE Call(h, OnFin(f), Undefined), Throw(arg))

\* the two callbacks of all for the element at index i of call c
AllThen(c, i) == [k |-> "allThen", n |-> c, i |-> i, m |-> "", v |-> Undefined]
AllCatch(c) == [k |-> "allCatch", n |-> c, i |-> 0, m |-> "", v |-> Undefined]

\* a counter that stores the result at the place of its completion
AllCountPush(h, c, i, v) ==
  [h EXCEPT !.comb[c].count = @ + 1, !.comb[c].results[h.comb[c].count + 1] = v]

\* resolvedPromises++; promiseResults[index] = result (lines 231-232)
AllCount(h, c, i, v) ==
  [h EXCEPT !.comb[c].count = @ + 1, !.comb[c].results[i] = v]
\* if (resolvedPromises === values.length) resolve(promiseResults) (233-235)
AllLast(h, c) ==
  IF h.comb[c].count = h.comb[c].n
  THEN Resolve(h, h.comb[c].p, Arr(h.comb[c].results))
  ELSE h

\* the callbacks of allSettled for the element at index i of call c, and the
\* onfinally of call c (lines 257-273)
SettledThen(c, i) == [k |-> "settledThen", n |-> c, i |-> i, m |-> "", v |-> Undefined]
SettledCatch(c, i) == [k |-> "settledCatch", n |-> c, i |-> i, m |-> "", v |-> Undefined]
SettledFinally(c) == [k |-> "settledFinally", n |-> c, i |-> 0, m |-> "", v |-> Undefined]
\* { status: "fulfilled", value } and { status: "rejected", reason }
Entry(status, v) == [t |-> status, n |-> 0, items |-> <<v>>]
\* promiseResults[index] = { status, ... } (lines 258-261 and 264-267)
SettledStore(h, c, i, e) == [h EXCEPT !.comb[c].results[i] = e]
\* resolvedPromises++ (line 270)
SettledCount(h, c) == [h EXCEPT !.comb[c].count = @ + 1]
\* a test that resolves at the first element that has settled
SettledLastFirst(h, c) ==
  IF h.comb[c].count = 1
  THEN Resolve(h, h.comb[c].p, Arr(h.comb[c].results))
  ELSE h
\* if (resolvedPromises === values.length) resolve(promiseResults) (271-273)
SettledLast(h, c) ==
  IF h.comb[c].count = h.comb[c].n
  THEN Resolve(h, h.comb[c].p, Arr(h.comb[c].results))
  ELSE h

\* the catch callback of any for the element at index i of call c (300-311)
AnyCatch(c, i) == [k |-> "anyCatch", n |-> c, i |-> i, m |-> "", v |-> Undefined]
\* new AggregateError(errors, message)
AggregateError(errors) == [t |-> "AggregateError", n |-> 0, items |-> errors]
\* a counter that stores the reason at the place of its rejection
AnyCountPush(h, c, i, r) ==
  [h EXCEPT !.comb[c].count = @ + 1, !.comb[c].results[h.comb[c].count + 1] = r]
\* rejectedPromises++; promiseErrors[index] = reason (lines 301-302)
AnyCount(h, c, i, r) ==
  [h EXCEPT !.comb[c].count = @ + 1, !.comb[c].results[i] = r]
\* if (rejectedPromises === values.length) reject(new AggregateError(...))
\* (lines 303-310)
AnyLast(h, c) ==
  IF h.comb[c].count = h.comb[c].n
  THEN Reject(h, h.comb[c].p, AggregateError(h.comb[c].results))
  ELSE h

\* the first guarded callback of adoption a (lines 81-85)
GuardedFulfill(h, a, v) ==
  IF h.called[a] THEN h
  ELSE Resolve([h EXCEPT !.called[a] = TRUE], h.owner[a], v)

\* the second guarded callback without its test of the flag
GuardedRejectAlways(h, a, r) ==
  Reject([h EXCEPT !.called[a] = TRUE], h.owner[a], r)

\* the second guarded callback of adoption a (lines 86-90)
GuardedReject(h, a, r) ==
  IF h.called[a] THEN h
  ELSE Reject([h EXCEPT !.called[a] = TRUE], h.owner[a], r)

\* a call f(arg) of a callback
Call(h, f, arg) ==
  CASE f.k = "resolve" -> Returned(Resolve(h, f.n, arg), Undefined)
    [] f.k = "reject" -> Returned(Reject(h, f.n, arg), Undefined)
    [] f.k = "guardF" -> Returned(GuardedFulfill(h, f.n, arg), Undefined)
    [] f.k = "guardR" -> Returned(GuardedReject(h, f.n, arg), Undefined)
    [] f.k = "ret" -> Returned(h, f.v)
    [] f.k = "throw" -> Thrown(h, f.v)
    [] f.k = "finF" -> PassThroughFulfilled(h, f, arg)
    [] f.k = "finR" -> PassThroughRejected(h, f, arg)
    [] f.k = "allThen" -> Returned(AllLast(AllCount(h, f.n, f.i, arg), f.n), Undefined)
    [] f.k = "allCatch" -> Returned(Reject(h, h.comb[f.n].p, arg), Undefined)
    [] f.k = "anyCatch" -> Returned(AnyLast(AnyCount(h, f.n, f.i, arg), f.n), Undefined)
    [] f.k = "settledThen" ->
         Returned(SettledStore(h, f.n, f.i, Entry("fulfilled", arg)), Undefined)
    [] f.k = "settledCatch" ->
         Returned(SettledStore(h, f.n, f.i, Entry("rejected", arg)), Undefined)
    [] f.k = "settledFinally" ->
         Returned(SettledLast(SettledCount(h, f.n), f.n), Undefined)

\* resolve(result) / catch: reject(error), r being what the transform did
\* (lines 178-181 and 191-194)
Settle(r, d) ==
  IF r.ok THEN Resolve(r.h, d, r.v) ELSE Reject(r.h, d, r.v)

\* a branch that passes no result on when the transform is not a function
BranchNoPass(h, f, j, onNotFn) ==
  IF ~IsFunction(f) THEN Call(h, onNotFn, Undefined).h
  ELSE Settle(Call(h, f, h.value[j.src]), j.down)

\* one branch of the microtask (lines 174-183 and 187-196)
Branch(h, f, j, onNotFn) ==
  IF ~IsFunction(f) THEN Call(h, onNotFn, h.value[j.src]).h
  ELSE Settle(Call(h, f, h.value[j.src]), j.down)

\* if (this.state === "fulfilled") ... (lines 173-184)
FulfilledBranch(h, j) ==
  IF h.state[j.src] = "fulfilled" THEN Branch(h, j.onF, j, ResolveFn(j.down)) ELSE h
\* a rejected branch that rejects with what the transform returned
RejectWith(r, d) == Reject(r.h, d, r.v)
RejectedBranchRejects(h, j) ==
  IF h.state[j.src] # "rejected" THEN h
  ELSE IF ~IsFunction(j.onR) THEN Reject(h, j.down, h.value[j.src])
  ELSE RejectWith(Call(h, j.onR, h.value[j.src]), j.down)

\* if (this.state === "rejected") ... (lines 186-197)
RejectedBranch(h, j) ==
  IF h.state[j.src] = "rejected" THEN Branch(h, j.onR, j, RejectFn(j.down)) ELSE h

\* the microtask of one handler record (lines 172-198)
ExecJob(h, j) ==
  RejectedBranch(FulfilledBranch([h EXCEPT !.runlog = Append(@, j.down)], j), j)

\* the locals and the new instance of a call of all (lines 220-222); vs and
\* at (the number of instances settled before the call) are history
AllLocals(h, p, vs) ==
  [h EXCEPT !.comb = Append(@, [kind |-> "all", p |-> p, n |-> Len(vs), count |-> 0,
                                results |-> [i \in 1..Len(vs) |-> Hole],
                                values |-> vs, at |-> Len(h.settled)])]

\* the body of values.forEach without its catch
AllElementNoCatch(h, c, v, i) ==
  ThenOn(StaticResolve(h, v), AllThen(c, i), NotFn)

\* the body of values.forEach for one element (lines 229-239)
AllElement(h, c, v, i) ==
  Chain(ThenOn(StaticResolve(h, v), AllThen(c, i), NotFn), NotFn, AllCatch(c))

\* values.forEach from index i on (line 228)
RECURSIVE AllForEach(_, _, _, _)
AllForEach(h, c, vs, i) ==
  IF i > Len(vs) THEN h
  ELSE AllForEach(AllElement(h, c, vs[i], i), c, vs, i + 1)

\* the executor of all (lines 222-241)
AllExecutor(h, c, vs) ==
  IF Len(vs) = 0 THEN Resolve(h, h.comb[c].p, Arr(<<>>))
  ELSE AllForEach(h, c, vs, 1)

\* MyPromise.all (lines 219-242): the instance it returns is Len(h.state) + 1
All(h, vs) ==
  AllExecutor(AllLocals(Alloc(h, 0), Len(h.state) + 1, vs), Len(h.comb) + 1, vs)

\* d.finally(f), d being the instance made last (a chained call)
ChainFinally(h, f) == Then(h, Len(h.state), FinF(f), FinR(f))

\* the locals and the new instance of a call of allSettled (lines 247-249)
SettledLocals(h, p, vs) ==
  [h EXCEPT !.comb = Append(@, [kind |-> "allSettled", p |-> p, n |-> Len(vs),
                                count |-> 0, results |-> [i \in 1..Len(vs) |-> Hole],
                                values |-> vs, at |-> Len(h.settled)])]

\* the body of values.forEach for one element (lines 256-274)
SettledElement(h, c, v, i) ==
  ChainFinally(Chain(ThenOn(StaticResolve(h, v), SettledThen(c, i), NotFn),
                     NotFn, SettledCatch(c, i)),
               SettledFinally(c))

\* values.forEach from index i on (line 255)
RECURSIVE SettledForEach(_, _, _, _)
SettledForEach(h, c, vs, i) ==
  IF i > Len(vs) THEN h
  ELSE SettledForEach(SettledElement(h, c, vs[i], i), c, vs, i + 1)

\* the executor of allSettled (lines 249-276)
SettledExecutor(h, c, vs) ==
  IF Len(vs) = 0 THEN Resolve(h, h.comb[c].p, Arr(<<>>))
  ELSE SettledForEach(h, c, vs, 1)

\* MyPromise.allSettled (lines 244-277): it returns instance Len(h.state) + 1
AllSettled(h, vs) ==
  SettledExecutor(SettledLocals(Alloc(h, 0), Len(h.state) + 1, vs), Len(h.comb) + 1, vs)

\* the new instance of a call of race (line 280); the record is history
RaceLocals(h, p, vs) ==
  [h EXCEPT !.comb = Append(@, [kind |-> "race", p |-> p, n |-> Len(vs), count |-> 0,
                                results |-> [i \in 1..Len(vs) |-> Hole],
                                values |-> vs, at |-> Len(h.settled)])]

\* a body of values.forEach that does not pass reject
RaceElementNoReject(h, p, v) ==
  ThenOn(StaticResolve(h, v), ResolveFn(p), NotFn)

\* the body of values.forEach for one element (line 282)
RaceElement(h, p, v) ==
  ThenOn(StaticResolve(h, v), ResolveFn(p), RejectFn(p))

\* values.forEach from index i on (line 281)
RECURSIVE RaceForEach(_, _, _, _)
RaceForEach(h, p, vs, i) ==
  IF i > Len(vs) THEN h
  ELSE RaceForEach(RaceElement(h, p, vs[i]), p, vs, i + 1)

\* a race that resolves with [] over the empty sequence, as all does
RaceEmptyResolves(h, vs) ==
  IF Len(vs) = 0
  THEN Construct(RaceLocals(h, Len(h.state) + 1, vs), <<Op("resolve", Arr(<<>>))>>)
  ELSE RaceForEach(RaceLocals(Alloc(h, 0), Len(h.state) + 1, vs), Len(h.state) + 1, vs, 1)

\* MyPromise.race (lines 279-285): it returns instance Len(h.state) + 1
Race(h, vs) ==
  RaceForEach(RaceLocals(Alloc(h, 0), Len(h.state) + 1, vs), Len(h.state) + 1, vs, 1)

\* the locals and the new instance of a call of any (lines 288-291)
AnyLocals(h, p, vs) ==
  [h EXCEPT !.comb = Append(@, [kind |-> "any", p |-> p, n |-> Len(vs), count |-> 0,
                                results |-> [i \in 1..Len(vs) |-> Hole],
                                values |-> vs, at |-> Len(h.settled)])]

\* the body of values.forEach for one element (lines 298-311)
AnyElement(h, c, v, i) ==
  Chain(ThenOn(StaticResolve(h, v), ResolveFn(h.comb[c].p), NotFn), NotFn, AnyCatch(c, i))

\* values.forEach from index i on (line 297)
RECURSIVE AnyForEach(_, _, _, _)
AnyForEach(h, c, vs, i) ==
  IF i > Len(vs) THEN h
  ELSE AnyForEach(AnyElement(h, c, vs[i], i), c, vs, i + 1)

\* the executor of any (lines 291-313)
AnyExecutor(h, c, vs) ==
  IF Len(vs) = 0 THEN Reject(h, h.comb[c].p, AggregateError(<<>>))
  ELSE AnyForEach(h, c, vs, 1)

\* MyPromise.any (lines 287-314): it returns instance Len(h.state) + 1
AnyPromise(h, vs) ==
  AnyExecutor(AnyLocals(Alloc(h, 0), Len(h.state) + 1, vs), Len(h.comb) + 1, vs)

(***************************************************************************)
(* The user program.  Every public call is one step; the scheduler's step  *)
(* is RunJob.  Each specification below lets the program draw the          *)
(* arguments of its calls from sets of its own.                            *)
(***************************************************************************)
Last(op, p, v, ret, pre, onF, onR) ==
  [op |-> op, p |-> p, v |-> v, ret |-> ret, pre |-> pre, onF |-> onF, onR |-> onR]

Init ==
  /\ state = <<>>
  /\ value = <<>>
  /\ handlers = <<>>
  /\ parent = <<>>
  /\ queue = <<>>
  /\ called = <<>>
  /\ owner = <<>>
  /\ keeps = <<>>
  /\ schedlog = <<>>
  /\ runlog = <<>>
  /\ settled = <<>>
  /\ regat = <<>>
  /\ via = <<>>
  /\ comb = <<>>
  /\ held = {}
  /\ pub = {}
  /\ calls = 0
  /\ selfres = {}
  /\ last = Last("init", 0, Undefined, 0, "", NotFn, NotFn)

\* the bound on the instances of heap h: allSettled makes six instances for
\* each element, so a heap it was called in has a bound of its own
Room(h) ==
  IF \E c \in DOMAIN h.comb : h.comb[c].kind = "allSettled"
  THEN MaxSettled ELSE MaxPromises

\* a public call that leaves the heap h: within the bounds of the model
Public(h, l) ==
  /\ calls < MaxCalls
  /\ Len(h.state) <= Room(h)
  /\ Commit(h)
  /\ calls' = calls + 1
  /\ last' = l

\* what the executor of a new instance p did, for the history
NewLast(r, p) ==
  Last("new", p, r.v, p, IF r.ok THEN "returned" ELSE r.h.state[p], NotFn, NotFn)

\* new MyPromise(executor), the executor running the steps of s; the program
\* keeps resolve and reject, as deferred() of the adapter does
NewOf(s) ==
  /\ Public(Construct(Heap, s),
            NewLast(RunExecutor(Alloc(Heap, 0), Len(state) + 1, s), Len(state) + 1))
  /\ held' = held \cup {Len(state) + 1}
  /\ pub' = pub \cup {Len(state) + 1}
  /\ UNCHANGED selfres

\* resolve(v), the closure of instance p
ResolveOf(p, v) ==
  /\ Public(Resolve(Heap, p, v), Last("resolve", p, v, 0, state[p], NotFn, NotFn))
  /\ selfres' = IF v = P(p) THEN selfres \cup {<<p, state[p]>>} ELSE selfres
  /\ UNCHANGED <<held, pub>>

\* reject(r), the closure of instance p
RejectOf(p, r) ==
  /\ Public(Reject(Heap, p, r), Last("reject", p, r, 0, state[p], NotFn, NotFn))
  /\ UNCHANGED <<held, pub, selfres>>

\* p.then(onF, onR)
ThenOf(p, onF, onR) ==
  /\ Public(Then(Heap, p, onF, onR),
            Last("then", p, Undefined, Len(state) + 1, state[p], onF, onR))
  /\ pub' = pub \cup {Len(state) + 1}
  /\ UNCHANGED <<held, selfres>>

\* p.catch(onR) (lines 138-145)
CatchOf(p, onR) ==
  /\ Public(Then(Heap, p, NotFn, onR),
            Last("catch", p, Undefined, Len(state) + 1, state[p], NotFn, onR))
  /\ pub' = pub \cup {Len(state) + 1}
  /\ UNCHANGED <<held, selfres>>

\* p.finally(f) (lines 147-159)
FinallyOf(p, f) ==
  /\ Public(Then(Heap, p, FinF(f), FinR(f)),
            Last("finally", p, Undefined, Len(state) + 1, state[p], f, f))
  /\ pub' = pub \cup {Len(state) + 1}
  /\ UNCHANGED <<held, selfres>>

\* MyPromise.allSettled(vs)
AllSettledOf(vs) ==
  /\ Public(AllSettled(Heap, vs),
            Last("allSettled", 0, Arr(vs), Len(state) + 1, "", NotFn, NotFn))
  /\ pub' = pub \cup {Len(state) + 1}
  /\ UNCHANGED <<held, selfres>>

\* MyPromise.race(vs)
RaceOf(vs) ==
  /\ Public(Race(Heap, vs), Last("race", 0, Arr(vs), Len(state) + 1, "", NotFn, NotFn))
  /\ pub' = pub \cup {Len(state) + 1}
  /\ UNCHANGED <<held, selfres>>

\* MyPromise.any(vs)
AnyOf(vs) ==
  /\ Public(AnyPromise(Heap, vs), Last("any", 0, Arr(vs), Len(state) + 1, "", NotFn, NotFn))
  /\ pub' = pub \cup {Len(state) + 1}
  /\ UNCHANGED <<held, selfres>>

\* a call of a static method that returned w, for the history l
PublicStatic(w, l) ==
  /\ Public(w.h, [l EXCEPT !.ret = w.p])
  /\ pub' = pub \cup {w.p}
  /\ UNCHANGED <<held, selfres>>

\* MyPromise.resolve(x) (resolved of the adapter)
StaticResolveOf(x) ==
  PublicStatic(StaticResolve(Heap, x), Last("staticResolve", 0, x, 0, "", NotFn, NotFn))

\* MyPromise.reject(r) (rejected of the adapter)
StaticRejectOf(r) ==
  PublicStatic(StaticReject(Heap, r), Last("staticReject", 0, r, 0, "", NotFn, NotFn))

\* MyPromise.all(vs)
AllOf(vs) ==
  /\ Public(All(Heap, vs), Last("all", 0, Arr(vs), Len(state) + 1, "", NotFn, NotFn))
  /\ pub' = pub \cup {Len(state) + 1}
  /\ UNCHANGED <<held, selfres>>

\* the heap h the microtask j leaves
Ran(h, j) ==
  /\ Len(h.state) <= Room(h)
  /\ Commit(h)
  /\ last' = Last("job", j.src, value[j.src], j.down, state[j.down], j.onF, j.onR)

\* the scheduler runs the oldest microtask
RunJob ==
  /\ queue # <<>>
  /\ Ran(ExecJob([Heap EXCEPT !.queue = Tail(@)], Head(queue)), Head(queue))
  /\ UNCHANGED <<held, pub, calls, selfres>>

\* a foreign object that kept the callbacks of adoption a calls g, one of them
ForeignOf(a, g, v) ==
  /\ keeps[a]
  /\ Public(Call(Heap, g, v).h,
            Last("foreign", owner[a], v, a, IF called[a] THEN "called" ELSE "first", g, g))
  /\ UNCHANGED <<held, pub, selfres>>

(***************************************************************************)
(* Spec: construction, resolve and reject with plain values and instances, *)
(* then with transforms that are absent, return or throw.                  *)
(***************************************************************************)
Executors ==
  { <<>>,
    <<Op("throw", E(1))>>,
    <<Op("resolve", V(1)), Op("throw", E(1))>> }
  \cup { <<Op("resolve", P(q)), Op("throw", E(1))>> : q \in pub }
Transforms == { <<NotFn, NotFn>>, <<Ret(V(2)), Ret(V(2))>>,
                <<Throw(E(2)), Throw(E(2))>> }

New == \E s \in Executors : NewOf(s)
CallResolve == \E p \in held : \E v \in {V(1)} \cup {P(q) : q \in pub} : ResolveOf(p, v)
CallReject == \E p \in held : RejectOf(p, E(1))
CallThen == \E p \in pub : \E t \in Transforms : ThenOf(p, t[1], t[2])

Next ==
  \/ New
  \/ CallResolve
  \/ CallReject
  \/ CallThen
  \/ RunJob

Spec == Init /\ [][Next]_vars

(***************************************************************************)
(* SpecForeign: deferred instances resolved with foreign objects, foreign  *)
(* objects that call the guarded callbacks later, and catch with a         *)
(* transform that returns a plain value or a foreign object.               *)
(***************************************************************************)
ForeignValues == { Th(k) : k \in DOMAIN Thenables }
Recoveries == { Ret(V(2)), Ret(Th(1)), Ret(Th(2)) }

NewDeferred == NewOf(<<>>)
ResolveForeign == \E p \in held : \E v \in {V(1)} \cup ForeignValues : ResolveOf(p, v)
ForeignCall ==
  \E a \in DOMAIN keeps : \E g \in {GuardF(a), GuardR(a)} : \E v \in {V(2), E(2)} :
    ForeignOf(a, g, v)
CallCatch == \E p \in pub : \E onR \in Recoveries : CatchOf(p, onR)

NextForeign ==
  \/ NewDeferred
  \/ ResolveForeign
  \/ CallReject
  \/ ForeignCall
  \/ CallCatch
  \/ RunJob

SpecForeign == Init /\ [][NextForeign]_vars

(***************************************************************************)
(* SpecFinally: MaxElems deferred instances made by deferred(), resolved   *)
(* and rejected by the program, and finally with an onfinally that is      *)
(* absent, throws, or returns a plain value, an instance or a foreign      *)
(* object.                                                                 *)
(***************************************************************************)
InitDeferred ==
  /\ state = [i \in 1..MaxElems |-> "pending"]
  /\ value = [i \in 1..MaxElems |-> Undefined]
  /\ handlers = [i \in 1..MaxElems |-> <<>>]
  /\ parent = [i \in 1..MaxElems |-> 0]
  /\ regat = [i \in 1..MaxElems |-> ""]
  /\ via = [i \in 1..MaxElems |-> Handler(NotFn, NotFn, 0)]
  /\ queue = <<>>
  /\ called = <<>>
  /\ owner = <<>>
  /\ keeps = <<>>
  /\ schedlog = <<>>
  /\ runlog = <<>>
  /\ settled = <<>>
  /\ comb = <<>>
  /\ held = 1..MaxElems
  /\ pub = 1..MaxElems
  /\ calls = 0
  /\ selfres = {}
  /\ last = Last("init", 0, Undefined, 0, "", NotFn, NotFn)

FinallyFns ==
  { NotFn, Throw(E(2)), Ret(V(2)), Ret(Th(1)), Ret(Th(2)), Ret(Th(3)), Ret(Th(4)),
    Ret(Th(5)) } \cup { Ret(P(q)) : q \in held }

ResolvePlain == \E p \in held : ResolveOf(p, V(1))
CallFinally == \E f \in FinallyFns : FinallyOf(1, f)

NextFinally ==
  \/ ResolvePlain
  \/ CallReject
  \/ CallFinally
  \/ RunJob

SpecFinally == InitDeferred /\ [][NextFinally]_vars

(***************************************************************************)
(* SpecAll: MaxElems deferred instances made by deferred(), each resolved  *)
(* or rejected with a value of its own, and all over sequences of them.    *)
(***************************************************************************)
RECURSIVE SeqsUpTo(_, _)
SeqsUpTo(S, n) ==
  IF n = 0 THEN { <<>> }
  ELSE SeqsUpTo(S, n - 1) \cup
       { Append(q, x) : q \in { r \in SeqsUpTo(S, n - 1) : Len(r) = n - 1 }, x \in S }
ElementSeqs == SeqsUpTo({ P(q) : q \in held }, MaxElems)

ResolveOwn == \E p \in held : ResolveOf(p, V(p))
RejectOwn == \E p \in held : RejectOf(p, E(p))
CallAll == \E vs \in ElementSeqs : AllOf(vs)

NextAll ==
  \/ ResolveOwn
  \/ RejectOwn
  \/ CallAll
  \/ RunJob

SpecAll == InitDeferred /\ [][NextAll]_vars

(***************************************************************************)
(* SpecSettled: MaxElems deferred instances made by deferred(), each       *)
(* resolved or rejected with a value of its own, and allSettled over       *)
(* one call of allSettled over a sequence of them.                         *)
(***************************************************************************)
\* the deferred instances in the order they were made, and the sequences
\* that start with the first of them
DeferredSeqs == { [i \in 1..n |-> P(i)] : n \in 0..MaxElems }
\* the program calls allSettled once
CallAllSettled == comb = <<>> /\ \E vs \in DeferredSeqs : AllSettledOf(vs)

NextSettled ==
  \/ ResolveOwn
  \/ RejectOwn
  \/ CallAllSettled
  \/ RunJob

SpecSettled == InitDeferred /\ [][NextSettled]_vars

(***************************************************************************)
(* SpecRace: MaxElems deferred instances made by deferred(), each resolved *)
(* or rejected with a value of its own, and race and any over sequences of *)
(* them.                                                                   *)
(***************************************************************************)
CallRace == \E vs \in DeferredSeqs : RaceOf(vs)
CallAny == \E vs \in DeferredSeqs : AnyOf(vs)

NextRace ==
  \/ ResolveOwn
  \/ RejectOwn
  \/ CallRace
  \/ CallAny
  \/ RunJob

SpecRace == InitDeferred /\ [][NextRace]_vars

(***************************************************************************)
(* SpecEmpty: the four combinators over the empty sequence and over one    *)
(* deferred instance, which the program resolves or rejects.               *)
(***************************************************************************)
ShortSeqs == { vs \in DeferredSeqs : Len(vs) <= 1 }
ShortAll == \E vs \in ShortSeqs : AllOf(vs)
ShortAllSettled == \E vs \in ShortSeqs : AllSettledOf(vs)
ShortRace == \E vs \in ShortSeqs : RaceOf(vs)
ShortAny == \E vs \in ShortSeqs : AnyOf(vs)
\* the program settles the one instance these sequences hold
ResolveFirst == ResolveOf(1, V(1))
RejectFirst == RejectOf(1, E(1))

NextEmpty ==
  \/ ResolveFirst
  \/ RejectFirst
  \/ ShortAll
  \/ ShortAllSettled
  \/ ShortRace
  \/ ShortAny
  \/ RunJob

SpecEmpty == InitDeferred /\ [][NextEmpty]_vars

(***************************************************************************)
(* SpecStatic: the static resolve and reject with plain values, errors,    *)
(* foreign objects and instances, next to deferred instances the program   *)
(* resolves and rejects.                                                   *)
(***************************************************************************)
StaticValues == { V(1), Th(1), Th(3) } \cup { P(q) : q \in pub }
CallStaticResolve == \E x \in StaticValues : StaticResolveOf(x)
CallStaticReject == \E r \in StaticValues : StaticRejectOf(r)

NextStatic ==
  \/ NewDeferred
  \/ CallResolve
  \/ CallReject
  \/ CallStaticResolve
  \/ CallStaticReject
  \/ RunJob

SpecStatic == Init /\ [][NextStatic]_vars

(***************************************************************************)
(* SpecCatch: the three places that catch: an executor that throws, resolve *)
(* called by the program with a foreign object whose then throws when read *)
(* or when called, and a transform that throws in its job.                 *)
(***************************************************************************)
CatchExecutors == { <<>>, <<Op("throw", E(1))>> }
CatchValues == { V(1), Th(1), Th(5), Th(6) }
NewCatch == \E s \in CatchExecutors : NewOf(s)
ResolveCatch == \E p \in held : \E v \in CatchValues : ResolveOf(p, v)

NextCatch ==
  \/ NewCatch
  \/ ResolveCatch
  \/ CallThen
  \/ RunJob

SpecCatch == Init /\ [][NextCatch]_vars

(***************************************************************************)
(* SpecWait: MaxElems deferred instances made by deferred(), and finally   *)
(* with an onfinally that returns one of them or a foreign object that     *)
(* keeps the callbacks and calls one of them later.                        *)
(***************************************************************************)
WaitFns == { Ret(Th(7)) } \cup { Ret(P(q)) : q \in held }
CallFinallyWait == \E f \in WaitFns : FinallyOf(1, f)

NextWait ==
  \/ ResolvePlain
  \/ CallReject
  \/ CallFinallyWait
  \/ ForeignCall
  \/ RunJob

SpecWait == InitDeferred /\ [][NextWait]_vars

(***************************************************************************)
(* The deferred instances of the adapter, resolved with each other or with *)
(* a thenable that keeps its callbacks, and then settled directly.         *)
(***************************************************************************)
PendingValues == { Th(7) } \cup { P(q) : q \in held }
DirectValues == { V(1), Th(1), Th(2) }

ResolvePending == \E p \in held : \E v \in PendingValues : ResolveOf(p, v)
ResolveDirect == \E v \in DirectValues : ResolveOf(1, v)

NextLock ==
  \/ ResolvePending
  \/ ResolveDirect
  \/ CallReject
  \/ ForeignCall
  \/ RunJob

SpecLock == InitDeferred /\ [][NextLock]_vars

(***************************************************************************)
(* Properties.                                                             *)
(***************************************************************************)
Instances == DOMAIN state
\* the records then has made: one per instance that has a parent
Records == { d \in Instances : parent[d] # 0 }
Pos(log, d) == CHOOSE i \in DOMAIN log : log[i] = d
Occurs(log, d) == \E i \in DOMAIN log : log[i] = d
NoRepeat(log) == \A i, j \in DOMAIN log : log[i] = log[j] => i = j

\* C1: an instance that has left "pending" keeps its state and its result in
\* every later step (so the state changes at most once, and only from
\* "pending" to "fulfilled" or "rejected"), whatever is called on it.
SettledForGood ==
  [][ /\ \A p \in Instances :
           /\ p \in DOMAIN state'
           /\ state'[p] \in {"pending", "fulfilled", "rejected"}
           /\ state[p] # "pending" => state'[p] = state[p] /\ value'[p] = value[p]
    ]_vars
\* resolve or reject was called on an instance that had settled before
SettledForGoodWitness ==
  /\ last.op \in {"resolve", "reject"}
  /\ last.pre # "pending"
  /\ last.v # value[last.p]

\* C2: a record's body runs only in the scheduler's step, as the oldest
\* microtask, never in the call that registered the record or settled its
\* source; the instance then returns is pending when then returns.
BodyRunsOnlyAsJob ==
  [][ /\ runlog' # runlog =>
           /\ queue # <<>>
           /\ last'.op = "job"
           /\ runlog' = Append(runlog, Head(queue).down)
      /\ last'.op = "then" => state'[last'.ret] = "pending"
    ]_vars
\* then was called on a settled instance, and its record waits in the queue
BodyRunsOnlyAsJobWitness ==
  /\ last.op = "then"
  /\ last.pre # "pending"
  /\ queue # <<>>
  /\ queue[Len(queue)].down = last.ret

\* C3: every record is given to the scheduler once, when its source is
\* settled, and is run once when the scheduler has drained; the records of
\* one instance are scheduled and run in the order of their registration.
EveryRecordOnce ==
  /\ NoRepeat(schedlog)
  /\ NoRepeat(runlog)
  /\ runlog \o [i \in DOMAIN queue |-> queue[i].down] = schedlog
  /\ \A d \in Records :
       /\ Occurs(schedlog, d) <=> state[parent[d]] # "pending"
       /\ ~Occurs(schedlog, d) => \E i \in DOMAIN handlers[parent[d]] :
                                     handlers[parent[d]][i].down = d
       /\ state[parent[d]] # "pending" /\ queue = <<>> => Occurs(runlog, d)
  /\ \A d1, d2 \in Records :
       /\ parent[d1] = parent[d2] /\ d1 < d2
       /\ Occurs(runlog, d1) /\ Occurs(runlog, d2)
       => Pos(runlog, d1) < Pos(runlog, d2)
\* two records of one instance, the first registered before it settled and
\* the second after, have both run
EveryRecordOnceWitness ==
  \E d1, d2 \in Records :
    /\ parent[d1] = parent[d2] /\ d1 < d2
    /\ regat[d1] = "pending" /\ regat[d2] # "pending"
    /\ Occurs(runlog, d1) /\ Occurs(runlog, d2)

\* C5 as stated: resolve(p) on p leaves p rejected with the self-resolution
\* error whatever was called on p before.
SelfResolutionAlwaysRejects ==
  \A x \in selfres :
    state[x[1]] = "rejected" /\ value[x[1]] = SelfResolutionError
\* C5 amended: resolve(p) on p while p is pending leaves p rejected with the
\* self-resolution error, in that step and in every later state.
SelfResolutionRejectsPending ==
  \A x \in selfres :
    x[2] = "pending" => state[x[1]] = "rejected" /\ value[x[1]] = SelfResolutionError
\* resolve(p) was called on p pending, and another resolve or reject of p with
\* another argument was called after it
SelfResolutionRejectsPendingWitness ==
  /\ <<last.p, "pending">> \in selfres
  /\ last.op \in {"resolve", "reject"}
  /\ last.v # P(last.p)

\* the transform a job calls, given the settled state of its source
Used(l) == IF state[l.p] = "fulfilled" THEN l.onF ELSE l.onR

\* C8: an executor that throws e while its instance is pending leaves the
\* instance rejected with e; a transform that throws e in a job leaves the
\* instance of its record rejected with e.
ThrowBecomesRejection ==
  /\ last.op = "new" /\ last.pre = "pending"
       => state[last.p] = "rejected" /\ value[last.p] = last.v
  /\ last.op = "job" /\ Used(last).k = "throw"
       => state[last.ret] = "rejected" /\ value[last.ret] = Used(last).v
\* an executor threw after a resolve that left its instance pending
ThrowBecomesRejectionWitness ==
  /\ last.op = "new" /\ last.pre = "pending"
  /\ handlers[1] # <<>>
\* a rejection transform threw in a job
ThrowInJobWitness ==
  /\ last.op = "job" /\ Used(last).k = "throw"
  /\ state[last.p] = "rejected"

\* C4 as stated: resolve(v) on a pending instance, v neither the instance
\* nor an object with a callable then, leaves it fulfilled with v.
ResolveFulfillsUnlessThenable ==
  /\ last.op = "resolve" /\ last.pre = "pending"
  /\ last.v # P(last.p) /\ ~IsThenable(last.v)
  => state[last.p] = "fulfilled" /\ value[last.p] = last.v
\* C4 amended: the same, for a v whose member then can also be read without
\* a throw.
ResolveFulfillsPlain ==
  /\ last.op = "resolve" /\ last.pre = "pending"
  /\ last.v # P(last.p) /\ ~IsThenable(last.v) /\ ~ThenReadThrows(last.v)
  => state[last.p] = "fulfilled" /\ value[last.p] = last.v
\* a pending instance was resolved with an object whose then is no function
ResolveFulfillsPlainWitness ==
  /\ last.op = "resolve" /\ last.pre = "pending"
  /\ last.v = Th(2)
  /\ state[last.p] = "fulfilled"

\* the foreign then of v calls a guarded callback before it returns or throws
CallsBack(v) ==
  /\ v.t = "thenable"
  /\ Thenables[v.n].get = "function"
  /\ Thenables[v.n].script # <<>>
  /\ Head(Thenables[v.n].script).op # "T"
\* the heap after the first call alone that the foreign then of v makes
FirstAlone(h, p, v) ==
  IF Head(Thenables[v.n].script).op = "F"
  THEN Resolve(h, p, Head(Thenables[v.n].script).v)
  ELSE Reject(h, p, Head(Thenables[v.n].script).v)
\* h has the states, results and queues that the variables have after the step
SameAfter(h) ==
  /\ state' = h.state
  /\ value' = h.value
  /\ handlers' = h.handlers
  /\ queue' = h.queue

\* C6: an adoption leaves the instance as the first call of a guarded callback
\* alone would, whatever the foreign then calls or throws after it, and a call
\* of a guarded callback of an adoption whose flag is set changes nothing.
OnlyFirstGuardedCall ==
  [][ /\ last'.op = "resolve" /\ last'.pre = "pending" /\ CallsBack(last'.v)
           => SameAfter(FirstAlone(Heap, last'.p, last'.v))
      /\ last'.op = "foreign" /\ last'.pre = "called"
           => SameAfter(Heap)
    ]_vars
\* a foreign object calls the second callback of an adoption whose first
\* callback it has called, while the adopting instance is still pending
OnlyFirstGuardedCallWitness ==
  /\ last.op = "foreign" /\ last.pre = "called"
  /\ last.onF.k = "guardR"
  /\ state[last.p] = "pending"

\* C7 as stated: a rejection transform that returns r, no instance and no
\* object with a callable then, leaves its record's instance fulfilled with r.
RecoveryFulfillsUnlessThenable ==
  /\ last.op = "job" /\ state[last.p] = "rejected"
  /\ last.onR.k = "ret" /\ ~IsThenable(last.onR.v)
  => state[last.ret] = "fulfilled" /\ value[last.ret] = last.onR.v
\* C7 amended: the same, for an r whose member then can also be read without
\* a throw.
RecoveryFulfills ==
  /\ last.op = "job" /\ state[last.p] = "rejected"
  /\ last.onR.k = "ret" /\ ~IsThenable(last.onR.v) /\ ~ThenReadThrows(last.onR.v)
  => state[last.ret] = "fulfilled" /\ value[last.ret] = last.onR.v
\* the job of a catch on a rejected instance has run a transform that returns
RecoveryFulfillsWitness ==
  /\ last.op = "job" /\ state[last.p] = "rejected"
  /\ last.onF = NotFn /\ last.onR = Ret(V(2))
  /\ state[last.ret] = "fulfilled"

\* the instances finally returned, and the onfinally each was made with
Finals == { d \in Instances : via[d].onF.k = "finF" }
OnFinally(d) == [k |-> via[d].onF.m, v |-> via[d].onF.v]
\* d has the state and the result of p
Same(d, p) == state[d] = state[p] /\ value[d] = value[p]
RejectedWith(d, r) == state[d] = "rejected" /\ value[d] = r
\* the first thing the callable then of foreign object v does
First(v) == Head(Thenables[v.n].script)

\* what a settled instance d that finally returned has become, when onfinally
\* threw, returned an instance or a thenable, or returned something else
AfterThrow(d) == RejectedWith(d, OnFinally(d).v)
AfterDeferred(d, q) ==
  /\ state[q] # "pending"
  /\ state[q] = "fulfilled" => Same(d, parent[d])
  /\ state[q] = "rejected" => RejectedWith(d, value[q])
AfterThenable(d, v) ==
  IF First(v).op = "F" THEN Same(d, parent[d]) ELSE RejectedWith(d, First(v).v)
AfterOther(d) == Same(d, parent[d])

\* every job has run, and the instance onfinally returned (if one) has settled
Quiet(d) ==
  /\ queue = <<>>
  /\ state[parent[d]] # "pending"
  /\ OnFinally(d).k = "ret" /\ OnFinally(d).v.t = "promise"
       => state[OnFinally(d).v.n] # "pending"

Alls == { c \in DOMAIN comb : comb[c].kind = "all" /\ comb[c].n > 0 }
\* the instance at index i of call c, and the indexes of the rejected ones
Elem(c, i) == comb[c].values[i].n
RejectedAt(c) == { i \in 1..comb[c].n : state[Elem(c, i)] = "rejected" }
\* when the element at index i settled: its place in the order of settlements
When(c, i) == Pos(settled, Elem(c, i))
\* when call c came to see the settlement of the element at index i: at the
\* call for an element settled before it, else when the element settled
Seen(c, i) == IF When(c, i) <= comb[c].at THEN comb[c].at ELSE When(c, i)
\* the rejected element of call c that rejected first in time
FirstInTime(c, i) ==
  i \in RejectedAt(c) /\ \A j \in RejectedAt(c) : When(c, i) <= When(c, j)
\* the rejected element of call c that the call saw first
FirstSeen(c, i) ==
  /\ i \in RejectedAt(c)
  /\ \A j \in RejectedAt(c) :
       Seen(c, i) < Seen(c, j) \/ (Seen(c, i) = Seen(c, j) /\ i <= j)

\* C10 as stated: all over elements of which one is rejected is never
\* fulfilled, is rejected once the scheduler has drained, and is rejected with
\* the reason of the element that rejected first in time, in every later state.
AllRejectsWithFirstInTime ==
  \A c \in Alls :
    RejectedAt(c) # {} =>
      /\ state[comb[c].p] # "fulfilled"
      /\ queue = <<>> => state[comb[c].p] = "rejected"
      /\ state[comb[c].p] = "rejected" =>
           \E i \in 1..comb[c].n : FirstInTime(c, i) /\ value[comb[c].p] = value[Elem(c, i)]

\* C10 amended: the same with the reason of the element whose rejection the
\* call saw first: the rejected element of lowest index among the elements
\* settled before the call, if there is one, else the first to reject after it.
AllRejectsWithFirstSeen ==
  \A c \in Alls :
    RejectedAt(c) # {} =>
      /\ state[comb[c].p] # "fulfilled"
      /\ queue = <<>> => state[comb[c].p] = "rejected"
      /\ state[comb[c].p] = "rejected" =>
           \E i \in 1..comb[c].n : FirstSeen(c, i) /\ value[comb[c].p] = value[Elem(c, i)]
\* all was called over two pending instances, the second rejected first, all
\* is rejected with its reason, and the first instance has settled after that
AllRejectsWithFirstSeenWitness ==
  \E c \in Alls :
    /\ comb[c].n = 2 /\ comb[c].at = 0
    /\ Elem(c, 1) # Elem(c, 2)
    /\ state[Elem(c, 1)] # "pending" /\ state[Elem(c, 2)] = "rejected"
    /\ When(c, 2) < When(c, 1)
    /\ RejectedWith(comb[c].p, value[Elem(c, 2)])

\* the element values of call c, by index
ElementValues(c) == Arr([i \in 1..comb[c].n |-> value[Elem(c, i)]])
EveryElement(c, st) == \A i \in 1..comb[c].n : state[Elem(c, i)] = st

\* C11: all is fulfilled only when every element is fulfilled, and then with
\* the sequence of the elements' values by index, whatever the order in which
\* they fulfilled; it is fulfilled once they all are and the scheduler has
\* drained; over the empty sequence it is fulfilled with the empty sequence.
AllFulfillsInOrder ==
  \A c \in DOMAIN comb :
    comb[c].kind = "all" =>
      /\ comb[c].n = 0 => state[comb[c].p] = "fulfilled" /\ value[comb[c].p] = Arr(<<>>)
      /\ state[comb[c].p] = "fulfilled" =>
           EveryElement(c, "fulfilled") /\ value[comb[c].p] = ElementValues(c)
      /\ EveryElement(c, "fulfilled") /\ queue = <<>> => state[comb[c].p] = "fulfilled"
\* all was called over two pending instances, the second fulfilled before the
\* first, and all is fulfilled
AllFulfillsInOrderWitness ==
  \E c \in Alls :
    /\ comb[c].n = 2 /\ comb[c].at = 0
    /\ Elem(c, 1) # Elem(c, 2)
    /\ EveryElement(c, "fulfilled")
    /\ When(c, 2) < When(c, 1)
    /\ state[comb[c].p] = "fulfilled"
    /\ value[comb[c].p] = Arr(<<V(Elem(c, 1)), V(Elem(c, 2))>>)

\* the calls of allSettled, and the entry that describes instance q
Settleds == { c \in DOMAIN comb : comb[c].kind = "allSettled" }
EntryOf(q) == Entry(state[q], value[q])
ElementEntries(c) == Arr([i \in 1..comb[c].n |-> EntryOf(Elem(c, i))])
NoElementPending(c) == \A i \in 1..comb[c].n : state[Elem(c, i)] # "pending"

\* C12: allSettled is never rejected; it is fulfilled only when every element
\* has settled, and then with the sequence of the entries that describe the
\* elements by index, whatever the order in which they settled; it is
\* fulfilled once they all have settled and the scheduler has drained.
AllSettledDescribes ==
  \A c \in Settleds :
    /\ state[comb[c].p] # "rejected"
    /\ state[comb[c].p] = "fulfilled" =>
         NoElementPending(c) /\ value[comb[c].p] = ElementEntries(c)
    /\ NoElementPending(c) /\ queue = <<>> => state[comb[c].p] = "fulfilled"
\* allSettled was called over two pending instances, the second was rejected
\* before the first fulfilled, and allSettled is fulfilled
AllSettledDescribesWitness ==
  \E c \in Settleds :
    /\ comb[c].n = 2 /\ comb[c].at = 0
    /\ Elem(c, 1) # Elem(c, 2)
    /\ state[Elem(c, 1)] = "fulfilled" /\ state[Elem(c, 2)] = "rejected"
    /\ When(c, 2) < When(c, 1)
    /\ state[comb[c].p] = "fulfilled"
    /\ value[comb[c].p] = Arr(<<Entry("fulfilled", V(Elem(c, 1))),
                                Entry("rejected", E(Elem(c, 2)))>>)

\* the calls of race over a sequence that is not empty
Races == { c \in DOMAIN comb : comb[c].kind = "race" /\ comb[c].n > 0 }
\* the indexes of the elements of call c that have settled
SettledAt(c) == { i \in 1..comb[c].n : state[Elem(c, i)] # "pending" }
\* among the elements of call c at the indexes S: the one that settled first
\* in time, and the one whose settlement the call saw first
FirstInTimeOf(S, c, i) == i \in S /\ \A j \in S : When(c, i) <= When(c, j)
FirstSeenOf(S, c, i) ==
  /\ i \in S
  /\ \A j \in S : Seen(c, i) < Seen(c, j) \/ (Seen(c, i) = Seen(c, j) /\ i <= j)

\* C13 as stated: race is settled once an element has settled and the
\* scheduler has drained, and then has the state and the result of the
\* element that settled first in time, in every later state.
RaceTakesFirstInTime ==
  \A c \in Races :
    /\ SettledAt(c) # {} /\ queue = <<>> => state[comb[c].p] # "pending"
    /\ state[comb[c].p] # "pending" =>
         \E i \in 1..comb[c].n :
           FirstInTimeOf(SettledAt(c), c, i) /\ Same(comb[c].p, Elem(c, i))

\* C13 amended: the same with the element whose settlement the call saw
\* first: the settled element of lowest index among the elements settled before
\* the call, if there is one, else the first to settle after it.
RaceTakesFirstSeen ==
  \A c \in Races :
    /\ SettledAt(c) # {} /\ queue = <<>> => state[comb[c].p] # "pending"
    /\ state[comb[c].p] # "pending" =>
         \E i \in 1..comb[c].n :
           FirstSeenOf(SettledAt(c), c, i) /\ Same(comb[c].p, Elem(c, i))
\* race was called over two pending instances, the second was rejected, race
\* is rejected with its reason, and the first instance has fulfilled after that
RaceTakesFirstSeenWitness ==
  \E c \in Races :
    /\ comb[c].n = 2 /\ comb[c].at = 0
    /\ state[Elem(c, 1)] = "fulfilled" /\ state[Elem(c, 2)] = "rejected"
    /\ When(c, 2) < When(c, 1)
    /\ queue = <<>>
    /\ RejectedWith(comb[c].p, E(Elem(c, 2)))

\* the calls of any, and the indexes of the fulfilled elements of call c
Anys == { c \in DOMAIN comb : comb[c].kind = "any" }
FulfilledAt(c) == { i \in 1..comb[c].n : state[Elem(c, i)] = "fulfilled" }
\* the aggregate error of the elements' reasons, by index
ElementErrors(c) == AggregateError([i \in 1..comb[c].n |-> value[Elem(c, i)]])

\* C15 as stated: any is fulfilled once an element has fulfilled and the
\* scheduler has drained, with the value of the element that fulfilled first
\* in time; it is rejected only when every element is rejected (at once over
\* the empty sequence), with the aggregate error of the reasons by index.
AnyTakesFirstInTime ==
  \A c \in Anys :
    /\ FulfilledAt(c) # {} /\ queue = <<>> => state[comb[c].p] = "fulfilled"
    /\ state[comb[c].p] = "fulfilled" =>
         \E i \in 1..comb[c].n :
           FirstInTimeOf(FulfilledAt(c), c, i) /\ value[comb[c].p] = value[Elem(c, i)]
    /\ state[comb[c].p] = "rejected" =>
         EveryElement(c, "rejected") /\ value[comb[c].p] = ElementErrors(c)
    /\ EveryElement(c, "rejected") /\ queue = <<>> => state[comb[c].p] = "rejected"
    /\ comb[c].n = 0 => RejectedWith(comb[c].p, AggregateError(<<>>))

\* C15 amended: the same with the value of the element whose fulfillment the
\* call saw first: the fulfilled element of lowest index among the elements
\* settled before the call, if there is one, else the first to fulfill after.
AnyTakesFirstSeen ==
  \A c \in Anys :
    /\ FulfilledAt(c) # {} /\ queue = <<>> => state[comb[c].p] = "fulfilled"
    /\ state[comb[c].p] = "fulfilled" =>
         \E i \in 1..comb[c].n :
           FirstSeenOf(FulfilledAt(c), c, i) /\ value[comb[c].p] = value[Elem(c, i)]
    /\ state[comb[c].p] = "rejected" =>
         EveryElement(c, "rejected") /\ value[comb[c].p] = ElementErrors(c)
    /\ EveryElement(c, "rejected") /\ queue = <<>> => state[comb[c].p] = "rejected"
    /\ comb[c].n = 0 => RejectedWith(comb[c].p, AggregateError(<<>>))
\* any was called over two pending instances, the second was rejected before
\* the first, and any is rejected with the two reasons by index
AnyTakesFirstSeenWitness ==
  \E c \in Anys :
    /\ comb[c].n = 2 /\ comb[c].at = 0
    /\ EveryElement(c, "rejected")
    /\ When(c, 2) < When(c, 1)
    /\ RejectedWith(comb[c].p, AggregateError(<<E(Elem(c, 1)), E(Elem(c, 2))>>))
\* any was called over two pending instances, the first was rejected, the
\* second fulfilled, and any is fulfilled with the second's value
AnyFulfilledWitness ==
  \E c \in Anys :
    /\ comb[c].n = 2 /\ comb[c].at = 0
    /\ state[Elem(c, 1)] = "rejected" /\ state[Elem(c, 2)] = "fulfilled"
    /\ state[comb[c].p] = "fulfilled" /\ value[comb[c].p] = V(Elem(c, 2))

\* the calls of a combinator over the empty sequence
Empties == { c \in DOMAIN comb : comb[c].n = 0 }
\* the kinds of combinator called before call c
KindsBefore(c) == { comb[b].kind : b \in 1..(c - 1) }

\* C14: the instance race returned for the empty sequence is pending in every
\* state; the instances all and allSettled returned for it are fulfilled with
\* the empty sequence, and the instance any returned for it is rejected, from
\* the state in which the combinator returned on.
EmptyRaceNeverSettles ==
  \A c \in Empties :
    /\ comb[c].kind = "race" => state[comb[c].p] = "pending"
    /\ comb[c].kind \in {"all", "allSettled"} =>
         state[comb[c].p] = "fulfilled" /\ value[comb[c].p] = Arr(<<>>)
    /\ comb[c].kind = "any" => state[comb[c].p] = "rejected"
\* race was called over the empty sequence, the three other combinators were
\* called over it after that, and the scheduler has drained
EmptyRaceNeverSettlesWitness ==
  \E c \in Empties :
    /\ comb[c].kind = "race"
    /\ \E d \in Empties : d > c /\ KindsBefore(d + 1) = {"race", "all", "allSettled", "any"}
    /\ queue = <<>>

\* the step left every instance and the queue as they were
NothingNew ==
  /\ state' = state
  /\ value' = value
  /\ handlers' = handlers
  /\ queue' = queue

\* C16: the static resolve of an instance returns that instance and makes
\* none; of any other x it returns a new instance that resolve(x) has acted on
\* (fulfilled with a plain x, rejected when reading x.then throws); the static
\* reject of r returns a new instance rejected with r, whatever r is.
StaticResolveIdentity ==
  [][ /\ last'.op = "staticResolve" /\ last'.v.t = "promise"
           => last'.ret = last'.v.n /\ NothingNew
      /\ last'.op = "staticResolve" /\ last'.v.t # "promise"
           => /\ last'.ret = Len(state) + 1
              /\ SameAfter(Resolve(Alloc(Heap, 0), Len(state) + 1, last'.v))
              /\ ~IsThenable(last'.v) /\ ~ThenReadThrows(last'.v)
                   => state'[last'.ret] = "fulfilled" /\ value'[last'.ret] = last'.v
              /\ ThenReadThrows(last'.v)
                   => state'[last'.ret] = "rejected"
                      /\ value'[last'.ret] = Thenables[last'.v.n].err
      /\ last'.op = "staticReject"
           => /\ last'.ret = Len(state) + 1
              /\ Len(state') = Len(state) + 1
              /\ state'[last'.ret] = "rejected" /\ value'[last'.ret] = last'.v
              /\ queue' = queue
    ]_vars
\* the static reject was called with a pending instance, and the static
\* resolve with that instance after it
StaticResolveIdentityWitness ==
  /\ last.op = "staticResolve" /\ last.v.t = "promise"
  /\ state[last.ret] = "pending"
  /\ \E d \in Instances : RejectedWith(d, last.v)

\* reading the then of v throws, or calling it throws before it calls back
Throwing(v) ==
  \/ ThenReadThrows(v)
  \/ /\ v.t = "thenable" /\ Thenables[v.n].get = "function"
     /\ Thenables[v.n].script # <<>> /\ First(v).op = "T"
ThrownBy(v) == IF ThenReadThrows(v) THEN Thenables[v.n].err ELSE First(v).v
\* the records whose transforms throw, and what they throw
Throwers == { d \in Records : via[d].onF.k = "throw" }
\* an executor that threw is caught in the constructor; a transform that threw
\* is caught in the job of its record
CaughtInPlace ==
  /\ last.op = "new" /\ last.pre = "pending" => RejectedWith(last.p, last.v)
  /\ \A d \in Throwers : RejectedWith(d, via[d].onF.v) => Occurs(runlog, d)

\* C17 as stated: outside a job only the executor's throw is caught; resolve,
\* called by the program with a value whose then throws when read or called,
\* does not catch in that call, so the instance is pending when it returns.
CatchOnlyInJob ==
  /\ CaughtInPlace
  /\ last.op = "resolve" /\ last.pre = "pending" /\ Throwing(last.v)
       => state[last.p] = "pending"

\* C17 amended: resolve catches the throw of the read and of the call of then
\* in the call of resolve itself, job or not: the instance is rejected with
\* what was thrown when resolve returns.
CatchInsideResolve ==
  /\ CaughtInPlace
  /\ last.op = "resolve" /\ last.pre = "pending" /\ Throwing(last.v)
       => RejectedWith(last.p, ThrownBy(last.v))
\* the program called resolve with an object whose then throws when called,
\* on an instance with a record whose transform throws
CatchInsideResolveWitness ==
  /\ last.op = "resolve" /\ last.pre = "pending" /\ last.v = Th(5)
  /\ RejectedWith(last.p, E(2))
  /\ \E i \in DOMAIN queue : queue[i].src = last.p /\ queue[i].onR.k = "throw"

\* the foreign then of v calls a guarded callback and throws after that
ThrowsAfterCallback(v) ==
  /\ CallsBack(v)
  /\ \E i \in 2..Len(Thenables[v.n].script) : Thenables[v.n].script[i].op = "T"

\* C18: resolve(v) on a pending instance rejects it with e when reading v.then
\* throws e, and when calling then throws e before then has called back; when
\* then throws after it has called back, the instance is left as the call of
\* the callback alone leaves it.
ThrowDuringAdoption ==
  [][ last'.op = "resolve" /\ last'.pre = "pending" =>
        /\ Throwing(last'.v) =>
             state'[last'.p] = "rejected" /\ value'[last'.p] = ThrownBy(last'.v)
        /\ ThrowsAfterCallback(last'.v) =>
             SameAfter(FirstAlone(Heap, last'.p, last'.v))
    ]_vars
\* the then of the object called the first callback with an object that keeps
\* the instance pending, and threw after that: the instance is pending
ThrowDuringAdoptionWitness ==
  /\ last.op = "resolve" /\ last.pre = "pending"
  /\ ThrowsAfterCallback(last.v)
  /\ state[last.p] = "pending"

\* the records that resolve made on an instance it was given: the record d of
\* parent[d] reports into the resolve and reject of instance Adopter(d)
Adoptions == { d \in Records : via[d].onF.k = "resolve" }
Adopter(d) == via[d].onF.n

\* C19: resolve(q) on a pending p, q another instance, leaves p pending, also
\* when q is settled; a job settles p only as the job of such a record, when q
\* has settled, and p then has the state and the result of q; once the job of
\* the record has run, p is settled.
AdoptionWaitsForJob ==
  [][ /\ /\ last'.op = "resolve" /\ last'.pre = "pending"
         /\ last'.v.t = "promise" /\ last'.v # P(last'.p)
         => state'[last'.p] = "pending"
      /\ \A p \in held :
           state[p] = "pending" /\ state'[p] # "pending" /\ last'.op = "job" =>
             /\ Head(queue).onF = ResolveFn(p)
             /\ state[Head(queue).src] # "pending"
             /\ state'[p] = state[Head(queue).src]
             /\ value'[p] = value[Head(queue).src]
      /\ \A d \in Adoptions :
           Occurs(runlog, d) => state[Adopter(d)] # "pending"
    ]_vars
\* the program called resolve(q) on p with q settled, no other resolve or
\* reject of p settled it, and the job of the record has given p q's outcome
AdoptionWaitsForJobWitness ==
  /\ last.op = "job" /\ last.onF.k = "resolve"
  /\ regat[last.ret] # "pending"
  /\ Same(last.onF.n, last.p)
  /\ Len(settled) > 1 /\ settled[Len(settled) - 1] = last.onF.n

\* C20: a job whose transform for the state of its source is not a function
\* leaves the instance of its record with the state and the result of the
\* source: fulfilled with its value, or rejected with its reason.
PassThroughUnchanged ==
  last.op = "job" /\ ~IsFunction(Used(last)) => Same(last.ret, last.p)
\* the job of a record without transforms has run on a rejected source
PassThroughUnchangedWitness ==
  /\ last.op = "job" /\ ~IsFunction(Used(last))
  /\ state[last.p] = "rejected"
  /\ RejectedWith(last.ret, E(1))

\* adoption a is the adoption of the foreign object that the onfinally of d
\* returned: its instance has a record whose instance d was resolved with
Reports(a, d) ==
  \E c \in Records :
    /\ parent[c] = owner[a]
    /\ \E r \in Records : parent[r] = c /\ via[r].onF = ResolveFn(d)

\* C21: the instance finally returned is pending in every state in which the
\* instance that onfinally returned is pending, and when onfinally returned a
\* foreign object it is settled only when that object has called back.
FinallyWaits ==
  \A d \in Finals :
    OnFinally(d).k = "ret" =>
      /\ OnFinally(d).v.t = "promise" /\ state[OnFinally(d).v.n] = "pending"
           => state[d] = "pending"
      /\ OnFinally(d).v.t = "thenable" /\ state[d] # "pending"
           => \E a \in DOMAIN called : called[a] /\ Reports(a, d)
\* p settled, onfinally returned another instance that settled after p, and
\* the instance finally returned has settled after that
FinallyWaitsWitness ==
  \E d \in Finals :
    /\ OnFinally(d).k = "ret" /\ OnFinally(d).v.t = "promise"
    /\ state[d] # "pending"
    /\ Pos(settled, parent[d]) < Pos(settled, OnFinally(d).v.n)
    /\ Pos(settled, OnFinally(d).v.n) < Pos(settled, d)
\* onfinally returned a foreign object that called back later, and the
\* instance finally returned has settled
FinallyWaitsForeignWitness ==
  \E d \in Finals :
    /\ OnFinally(d).v.t = "thenable" /\ state[d] # "pending"

\* log2 is log with records added at its end
Extends(log2, log) ==
  /\ Len(log) <= Len(log2)
  /\ \A i \in DOMAIN log : log2[i] = log[i]
\* the records of two instances: registered while their sources were pending,
\* they are enqueued in the order in which the sources settled; registered
\* on settled sources, in the order of the registrations; and the jobs of
\* enqueued records run in the order in which they were enqueued
QueuedInOrder ==
  \A d1, d2 \in Records :
    /\ /\ regat[d1] = "pending" /\ regat[d2] = "pending"
       /\ Occurs(settled, parent[d1]) /\ Occurs(settled, parent[d2])
       /\ Pos(settled, parent[d1]) < Pos(settled, parent[d2])
       => Pos(schedlog, d1) < Pos(schedlog, d2)
    /\ regat[d1] # "pending" /\ regat[d2] # "pending" /\ d1 < d2
       => Pos(schedlog, d1) < Pos(schedlog, d2)
    /\ /\ Occurs(schedlog, d1) /\ Occurs(schedlog, d2)
       /\ Pos(schedlog, d1) < Pos(schedlog, d2) /\ Occurs(runlog, d2)
       => Occurs(runlog, d1) /\ Pos(runlog, d1) < Pos(runlog, d2)

GlobalFifoPendingWitness ==
  \E d1, d2 \in Records :
    /\ parent[d1] > parent[d2]
    /\ regat[d1] = "pending" /\ regat[d2] = "pending"
    /\ Occurs(schedlog, d1) /\ Occurs(schedlog, d2)
    /\ Pos(schedlog, d1) < Pos(schedlog, d2)

\* the records made in the step that is being taken
Made == (DOMAIN state') \ (DOMAIN state)

\* C23: after every call and every job, an instance that is not pending has
\* no record waiting; the records that waited on an instance settled in the
\* step are all enqueued, in order; and while a job runs, the jobs enqueued
\* before it stay ahead, so a record that the running body registers is
\* enqueued behind the batch.
BatchSwapped ==
  [][ /\ \A p \in DOMAIN state' : state'[p] # "pending" => handlers'[p] = <<>>
      /\ \A p \in DOMAIN state :
           state[p] = "pending" /\ state'[p] # "pending" =>
             \A i, j \in DOMAIN handlers[p] :
               /\ Occurs(schedlog', handlers[p][i].down)
               /\ ~Occurs(schedlog, handlers[p][i].down)
               /\ i < j => Pos(schedlog', handlers[p][i].down)
                             < Pos(schedlog', handlers[p][j].down)
      /\ last'.op = "job" =>
           /\ Len(queue') >= Len(queue) - 1
           /\ \A i \in 1..(Len(queue) - 1) : queue'[i] = queue[i + 1]
           /\ \A d \in Made :
                Occurs(schedlog', d) => Pos(schedlog', d) > Len(schedlog)
    ]_vars
\* two records waited on an instance when it settled; the job of the first
\* has run and its body has registered a record on the same instance, which
\* is enqueued behind the second, whose job has not run yet
BatchSwappedWitness ==
  \E d, d1, d2 \in Records :
    /\ parent[d] = parent[d1] /\ parent[d] = parent[d2] /\ d1 < d2
    /\ regat[d1] = "pending" /\ regat[d2] = "pending" /\ regat[d] # "pending"
    /\ via[d].onF.k = "ret"
    /\ handlers[parent[d]] = <<>>
    /\ Occurs(runlog, d1) /\ ~Occurs(runlog, d2)
    /\ Occurs(schedlog, d2) /\ Occurs(schedlog, d)
    /\ Pos(schedlog, d2) < Pos(schedlog, d)

\* instance p was resolved with instance q, which is pending, or with a
\* thenable that keeps the callbacks and has called neither
Waiting(p) ==
  \/ \E d \in Records :
       via[d].onF = ResolveFn(p) /\ state[parent[d]] = "pending"
  \/ \E a \in DOMAIN called : owner[a] = p /\ keeps[a] /\ ~called[a]
\* the value of the last call is a pending instance other than p, or a
\* thenable that keeps the callbacks without calling them
StillPending(v, p) ==
  \/ v.t = "promise" /\ v # P(p) /\ state[v.n] = "pending"
  \/ v.t = "thenable" /\ IsThenable(v) /\ Thenables[v.n].keeps /\ Thenables[v.n].script = <<>>
\* the steps of the claim that do not depend on the value of a direct resolve
NoLockInSteps ==
  /\ last'.op = "resolve" /\ last'.pre = "pending" /\ StillPending(last'.v, last'.p)
     => state'[last'.p] = "pending"
  /\ last'.op = "reject" /\ last'.pre = "pending" /\ Waiting(last'.p)
     => state'[last'.p] = "rejected" /\ value'[last'.p] = last'.v
  /\ \A p \in held :
       state[p] # "pending" => state'[p] = state[p] /\ value'[p] = value[p]

NoLockInForeignWitness ==
  \E a \in DOMAIN called :
    /\ keeps[a] /\ called[a]
    /\ last.op = "foreign" /\ last.ret = a
    /\ state[owner[a]] = "fulfilled" /\ value[owner[a]] = V(1)

====
